---------------------------- MODULE Spec2Model ----------------------------
(***************************************************************************)
(* A model of parasol's linear-Gaussian dynamics prior (parasol.prior.lds, *)
(* class LDS) and of the environment registry (parasol.gym).               *)
(*                                                                         *)
(* Numbers.  Real-valued tensors are held in fixed point: the entries of   *)
(* A, Q, means and covariances are integers counting hundredths (Scale is  *)
(* 1.0).  Q_log_diag is held in whole units, so that exp has a finite      *)
(* table.  A tensor is a sequence of its slices along the first axis.      *)
(*                                                                         *)
(* Graph mode.  deepx's backend T builds symbolic tensors (the code runs   *)
(* them through T.get_current_session()), so what a method returns and     *)
(* what the cache holds is a graph node, modelled as a record naming the   *)
(* computation that built it; Eval... operators give the value a node has  *)
(* under the current values of the variables A and Q_log_diag.             *)
(***************************************************************************)
EXTENDS Integers, Sequences, FiniteSets, TLC

\* ------------------------------------------------------------- bounds
MaxDs == 2
MaxDa == 1
MaxH == 3
NumSeeds == 2
MaxUpdates == 1
NumQX == 2
NumQA == 1
MaxEncoded == 1
MaxComputations == 2
MaxObjects == 2
MaxEnvs == 2

\* 1.0 in fixed point: the unit is the 1e-2 of the initialisation noise.
Scale == 100

\* the rollouts per minibatch (train.batch_size of the experiment)
BatchSize == 2

\* Python's None
None == [class |-> "NoneType"]

\* ------------------------------------------------------------- tensors
RECURSIVE SumSeq(_)
SumSeq(s) == IF s = <<>> THEN 0 ELSE Head(s) + SumSeq(Tail(s))

\* T.eye(n), T.zeros([n, m]), T.concatenate([X, Y], -1) on matrices
Eye(n) == [i \in 1..n |-> [j \in 1..n |-> IF i = j THEN Scale ELSE 0]]

Zeros(n, m) == [i \in 1..n |-> [j \in 1..m |-> 0]]

ConcatLast(X, Y) == [i \in 1..Len(X) |-> X[i] \o Y[i]]

\* T.tile(X[None], [k, 1, 1]): k copies of X along a new first axis
Tile(X, k) == [t \in 1..k |-> X]

\* T.random_normal(shape): a pseudo-random draw fixed by the seed; the entry
\* with linear index k of the draw, in whole standard deviations.
RandomNormal(seed, k) ==
    (((seed * seed * 3 + seed * k * 5 + k * k + k * 2 + seed) % 7) % 3) - 1

\* T.exp on the values Q_log_diag takes, in hundredths.
QLogVals == -1..3

Exp(x) == CASE x = -1 -> 37 [] x = 0 -> 100 [] x = 1 -> 272
            [] x = 2 -> 739 [] x = 3 -> 2009

\* natural logarithm of a value of Exp's table (whole units)
Ln(v) == CHOOSE x \in QLogVals : Exp(x) = v

\* T.matrix_diag(v): the square matrix with v on its diagonal
MatrixDiag(v) == [i \in 1..Len(v) |-> [j \in 1..Len(v) |-> IF i = j THEN v[i] ELSE 0]]

\* T.matrix_diag_part(M)
MatrixDiagPart(M) == [i \in 1..Len(M) |-> M[i][i]]

\* floor of the square root
RECURSIVE SqrtBetween(_, _, _)
SqrtBetween(n, lo, hi) ==
    IF lo >= hi THEN lo
    ELSE LET mid == (lo + hi + 1) \div 2
         IN IF mid * mid <= n THEN SqrtBetween(n, mid, hi)
            ELSE SqrtBetween(n, lo, mid - 1)

\* a power of two whose square exceeds n
RECURSIVE SqrtAbove(_, _)
SqrtAbove(n, h) == IF h * h > n THEN h ELSE SqrtAbove(n, 2 * h)

ISqrt(n) == SqrtBetween(n, 0, SqrtAbove(n, 1))

\* T.sqrt of a value in hundredths, in hundredths
Sqrt(v) == ISqrt(v * Scale)

\* ------------------------------------------------------------- state
VARIABLES
    self,           \* identity of the LDS object followed (0: none built yet)
    ds, da, horizon,
    time_varying, smooth,
    A, Q_log_diag,  \* the learnable variables
    cache,          \* self.cache: (q_X, q_A) -> graph node of (kl, info)
    computations,   \* how often this object ran the underlying KL computation
    first,          \* per pair handed to kl_divergence on this object: what the first call returned
    ctor,           \* the (time_varying, smooth) the model was constructed with
    updates,        \* optimizer steps applied so far
    saved,          \* the last __getstate__ result, or None
    savedDyn,       \* get_dynamics() as evaluated when saved was taken
    heap,           \* the ChainSmoother objects encode has built, by identity
    op, ret,        \* the last call and what it returned
    registry, made, constructions, raised, config   \* parasol.gym

ldsVars == <<self, ds, da, horizon, time_varying, smooth, A, Q_log_diag, cache,
             computations, first, ctor, updates, saved, savedDyn, heap>>

gymVars == <<registry, made, constructions, raised, config>>

vars == <<ldsVars, op, ret, gymVars>>


\* The object followed, as a record of its attributes.
Me == [ds |-> ds, da |-> da, horizon |-> horizon, time_varying |-> time_varying,
       smooth |-> smooth, A |-> A, Q_log_diag |-> Q_log_diag]

\* ------------------------------------------------------------- parameters
RandomNormal1(seed, a) == [i \in 1..a |-> RandomNormal(seed, i)]

RandomNormal2(seed, a, b) ==
    [i \in 1..a |-> [j \in 1..b |-> RandomNormal(seed, (i - 1) * b + j)]]

RandomNormal3(seed, a, b, c) ==
    [t \in 1..a |-> [i \in 1..b |-> [j \in 1..c |->
        RandomNormal(seed, ((t - 1) * b + (i - 1)) * c + j)]]]

\* 1e-2 * x, for x in whole units, in hundredths
OneHundredth(x) == x * (Scale \div 100)

\* the second draw of initialize_objective comes later in the generator's stream
NextDraw(seed) == seed + NumSeeds

\* initialize_objective: the initial values of self.A and self.Q_log_diag
InitialA(tv, s, a, H, seed) ==
    LET base == ConcatLast(Eye(s), Zeros(s, a))
    IN IF tv
       THEN LET noise == RandomNormal3(seed, H - 1, s, s + a)
            IN [t \in 1..(H - 1) |-> [i \in 1..s |-> [j \in 1..(s + a) |->
                    base[i][j] + OneHundredth(noise[t][i][j])]]]
       ELSE LET noise == RandomNormal2(seed, s, s + a)
            IN [i \in 1..s |-> [j \in 1..(s + a) |->
                    base[i][j] + OneHundredth(noise[i][j])]]

InitialQLogDiag(tv, s, H, seed) ==
    IF tv
    THEN LET noise == RandomNormal2(NextDraw(seed), H - 1, s)
         IN [t \in 1..(H - 1) |-> [i \in 1..s |-> noise[t][i] + 1]]
    ELSE LET noise == RandomNormal1(NextDraw(seed), s)
         IN [i \in 1..s |-> noise[i] + 1]

\* self.Q = T.matrix_diag(T.exp(self.Q_log_diag)): a node over Q_log_diag, so it
\* follows every later assignment to the variable.
QOf(m) ==
    IF m.time_varying
    THEN [t \in 1..Len(m.Q_log_diag) |->
            MatrixDiag([i \in 1..Len(m.Q_log_diag[t]) |-> Exp(m.Q_log_diag[t][i])])]
    ELSE MatrixDiag([i \in 1..Len(m.Q_log_diag) |-> Exp(m.Q_log_diag[i])])

\* a get_dynamics that tiles the stationary parameters once per time step
GetDynamicsTiledPerStep(m) ==
    IF m.time_varying
    THEN <<m.A, QOf(m)>>
    ELSE <<Tile(m.A, m.horizon), Tile(QOf(m), m.horizon)>>

\* a get_dynamics that hands out the raw parameters in either mode
GetDynamicsUntiled(m) == <<m.A, QOf(m)>>

\* get_dynamics
GetDynamics(m) ==
    IF m.time_varying
    THEN <<m.A, QOf(m)>>
    ELSE <<Tile(m.A, m.horizon - 1), Tile(QOf(m), m.horizon - 1)>>

\* get_parameters
GetParameters(m) == <<m.A, m.Q_log_diag>>

\* ------------------------------------------------------------- linear algebra
\* T.matrix_inverse of the (diagonal) noise covariance
MatrixInverse(M) ==
    [i \in 1..Len(M) |-> [j \in 1..Len(M) |->
        IF i = j THEN (Scale * Scale) \div M[i][i] ELSE 0]]

\* T.matrix_solve(Q, X) = Q^-1 X for the (diagonal) noise covariance
MatrixSolve(M, X) ==
    [i \in 1..Len(X) |-> [j \in 1..Len(X[i]) |-> (X[i][j] * Scale) \div M[i][i]]]

\* T.logdet of the (diagonal) noise covariance, in hundredths
LogDet(M) == SumSeq([i \in 1..Len(M) |-> Ln(M[i][i]) * Scale])

\* -0.5 * x
NegHalf(x) == -(x \div 2)

\* T.einsum('hba,hbc->hac', X, Y) on one slice h
EinsumBaBc(X, Y) ==
    [a \in 1..Len(X[1]) |-> [c \in 1..Len(Y[1]) |->
        SumSeq([b \in 1..Len(X) |-> X[b][a] * Y[b][c]]) \div Scale]]

\* sufficient_statistics
SufficientStatistics(m) ==
    LET dyn == GetDynamics(m)
        DA == dyn[1]
        DQ == dyn[2]
        Q_inv == [h \in 1..Len(DQ) |-> MatrixInverse(DQ[h])]
        Q_inv_A == [h \in 1..Len(DQ) |-> MatrixSolve(DQ[h], DA[h])]
    IN << [h \in 1..Len(DQ) |-> [i \in 1..Len(Q_inv[h]) |->
                [j \in 1..Len(Q_inv[h]) |-> NegHalf(Q_inv[h][i][j])]]],
          Q_inv_A,
          [h \in 1..Len(DA) |->
              LET P == EinsumBaBc(DA[h], Q_inv_A[h])
              IN [i \in 1..Len(P) |-> [j \in 1..Len(P[i]) |-> NegHalf(P[i][j])]]],
          [h \in 1..Len(DQ) |-> NegHalf(LogDet(DQ[h]))] >>

\* ------------------------------------------------------------- posteriors
\* The encoder's posteriors are objects of the caller: state posteriors have the
\* identities 1..NumQX, action posteriors 1..NumQA.  A posterior is a diagonal
\* Gaussian; get_parameters('regular') is (cov, mean), expected_value() is mean.
PosteriorSeed(id) == id + NumSeeds + NumSeeds

PosteriorMean(id, N, H, d) ==
    [n \in 1..N |-> [h \in 1..H |-> [i \in 1..d |->
        LET k == ((n - 1) * H + (h - 1)) * d + i
        IN RandomNormal(PosteriorSeed(id), k) * (Scale \div 2) + k]]]

PosteriorCov(id, N, H, d) ==
    [n \in 1..N |-> [h \in 1..H |->
        MatrixDiag([i \in 1..d |->
            Exp(RandomNormal(PosteriorSeed(id) + 1, ((n - 1) * H + (h - 1)) * d + i))])]]

StatePosterior(id, m) ==
    [class |-> "Gaussian",
     cov |-> PosteriorCov(id, BatchSize, m.horizon, m.ds),
     mean |-> PosteriorMean(id, BatchSize, m.horizon, m.ds)]

ActionPosterior(id, m) ==
    [class |-> "Gaussian",
     cov |-> PosteriorCov(id + NumQX, BatchSize, m.horizon, m.da),
     mean |-> PosteriorMean(id + NumQX, BatchSize, m.horizon, m.da)]

RawX == 1..NumQX

RawA == 1..NumQA

\* X[:, :-1] and X[:, 1:]
AllButLast(X) == [n \in 1..Len(X) |-> SubSeq(X[n], 1, Len(X[n]) - 1)]

AllButFirst(X) == [n \in 1..Len(X) |-> Tail(X[n])]

\* T.concatenate([X, Y], -1) on [N, H, .] tensors
ConcatLast3(X, Y) == [n \in 1..Len(X) |-> [h \in 1..Len(X[n]) |-> X[n][h] \o Y[n][h]]]

\* T.einsum('nhs,hxs->nhx', XA, M)
EinsumNhsHxs(XA, M) ==
    [n \in 1..Len(XA) |-> [h \in 1..Len(XA[n]) |-> [x \in 1..Len(M[h]) |->
        SumSeq([s \in 1..Len(XA[n][h]) |-> XA[n][h][s] * M[h][x][s]]) \div Scale]]]

\* forward
Forward(m, q_Xt, q_At) ==
    LET Xt == q_Xt.mean
        At == q_At.mean
        batch_size == Len(Xt)
        XAt == ConcatLast3(Xt, At)
        dyn == GetDynamics(m)
    IN [class |-> "Gaussian",
        cov |-> [n \in 1..batch_size |-> dyn[2]],
        mean |-> EinsumNhsHxs(XAt, dyn[1])]

\* stats.kl_divergence(q, p) of two diagonal Gaussians over one vector, closed form:
\* 0.5 * sum_i (sq_i / sp_i + (mp_i - mq_i)^2 / sp_i - 1 + ln sp_i - ln sq_i)
GaussianKL(qcov, qmean, pcov, pmean) ==
    SumSeq([i \in 1..Len(qmean) |->
        (qcov[i][i] * Scale) \div pcov[i][i]
        + ((pmean[i] - qmean[i]) * (pmean[i] - qmean[i])) \div pcov[i][i]
        - Scale
        + Scale * (Ln(pcov[i][i]) - Ln(qcov[i][i]))]) \div 2

\* T.sqrt(T.sum(T.square(x - y), axis=-1)) on two vectors
Rmse(x, y) == ISqrt(SumSeq([i \in 1..Len(x) |-> (x[i] - y[i]) * (x[i] - y[i])]))

\* T.sqrt(T.matrix_diag_part(Q)) of get_dynamics()[1]
ModelStdev(m) ==
    LET DQ == GetDynamics(m)[2]
    IN [h \in 1..Len(DQ) |-> [i \in 1..Len(DQ[h]) |-> Sqrt(MatrixDiagPart(DQ[h])[i])]]

\* the slice of q_X the transitions start from
SliceFrom(q) == [class |-> q.class, cov |-> AllButLast(q.cov), mean |-> AllButLast(q.mean)]

\* scoring against the same time steps the transitions start from
SliceToSameStep(q) ==
    [class |-> q.class, cov |-> AllButLast(q.cov), mean |-> AllButLast(q.mean)]

\* the slice of q_X the transitions are scored against
SliceTo(q) == [class |-> q.class, cov |-> AllButFirst(q.cov), mean |-> AllButFirst(q.mean)]

\* kl_divergence, non-smoothing branch: the value of (kl, info)
KlForward(m, q_X, q_A) ==
    LET q_Xt == SliceFrom(q_X)
        q_At == SliceFrom(q_A)
        p_Xt1 == Forward(m, q_Xt, q_At)
        q_Xt1 == SliceTo(q_X)
        N == Len(q_Xt1.mean)
        rmse == [n \in 1..N |-> [h \in 1..Len(q_Xt1.mean[n]) |->
                    Rmse(q_Xt1.mean[n][h], p_Xt1.mean[n][h])]]
        perStep == [n \in 1..N |-> [h \in 1..Len(q_Xt1.mean[n]) |->
                    GaussianKL(q_Xt1.cov[n][h], q_Xt1.mean[n][h],
                               p_Xt1.cov[n][h], p_Xt1.mean[n][h])]]
        kl == SumSeq([n \in 1..N |-> SumSeq(perStep[n])]) \div N
    IN [kl |-> kl, info |-> [rmse |-> rmse, model_stdev |-> ModelStdev(m)]]

\* kl_divergence, smoothing branch: stats.LDS and the KL of two chains are deepx's;
\* their results are kept as terms over the arguments the code hands them.
KlSmooth(m, q_X, q_A) ==
    LET state_prior == [class |-> "GaussianScaleDiag",
                        scale |-> [i \in 1..m.ds |-> Scale],
                        mean |-> [i \in 1..m.ds |-> 0]]
        p_X == [class |-> "LDS", stats |-> SufficientStatistics(m),
                prior |-> state_prior, evidence |-> None,
                actions |-> q_A.mean, horizon |-> m.horizon, form |-> "internal"]
    IN [kl |-> [fn |-> "mean", of |-> [fn |-> "kl_divergence", q |-> q_X, p |-> p_X]],
        info |-> [model_stdev |-> ModelStdev(m)]]

\* ------------------------------------------------------------- the prior
Seeds == 1..NumSeeds

NoCache == [k \in {} |-> None]

\* The smoothed chains encode has built have the identities after the raw ones.
EncodedX == {NumQX + i : i \in 1..Len(heap)}

\* what a state posterior object holds
XContent(id, m) == IF id \in RawX THEN StatePosterior(id, m) ELSE heap[id - NumQX]

\* The value the cached node (kl, info) has under the current parameters.
EvalNode(m, node) ==
    IF node.smooth
    THEN KlSmooth(m, XContent(node.q_X, m), ActionPosterior(node.q_A, m))
    ELSE KlForward(m, XContent(node.q_X, m), ActionPosterior(node.q_A, m))

\* LDS.__init__ of the model, with every configuration and seed
InitLDS ==
    /\ self = 1
    /\ ds \in 1..MaxDs
    /\ da \in 1..MaxDa
    /\ horizon \in 2..MaxH
    /\ time_varying \in BOOLEAN
    /\ smooth \in BOOLEAN
    /\ \E seed \in Seeds :
          /\ A = InitialA(time_varying, ds, da, horizon, seed)
          /\ Q_log_diag = InitialQLogDiag(time_varying, ds, horizon, seed)
    /\ cache = NoCache
    /\ computations = 0
    /\ first = NoCache
    /\ ctor = <<time_varying, smooth>>
    /\ updates = 0
    /\ saved = None
    /\ savedDyn = <<>>
    /\ heap = <<>>
    /\ op = "__init__"
    /\ ret = None

frame == <<self, ds, da, horizon, time_varying, smooth, ctor>>

params == <<A, Q_log_diag>>

\* dynamics statistics a caller hands to encode: a tensor of the caller's
GivenStats == [fn |-> "given_statistics"]

\* an encode that hands back the smoothed chain whatever the branch
EncodeResultAlwaysSmoothed(isSmooth, q_X, q_A, newId) == <<newId, q_A>>

\* encode(q_X, q_A, dynamics_stats)
EncodeResult(isSmooth, q_X, q_A, newId) == IF isSmooth THEN <<newId, q_A>> ELSE <<q_X, q_A>>

Encode(q_X, q_A, dynamics_stats) ==
    /\ self > 0
    /\ smooth => Len(heap) < MaxEncoded
    /\ heap' = IF smooth
               THEN Append(heap,
                      [class |-> "LDS",
                       stats |-> IF dynamics_stats = None
                                 THEN [fn |-> "sufficient_statistics", of |-> self]
                                 ELSE dynamics_stats,
                       prior |-> [class |-> "Gaussian", cov |-> Eye(ds),
                                  mean |-> [i \in 1..ds |-> 0]],
                       evidence |-> q_X, actions |-> q_A, horizon |-> horizon])
               ELSE heap
    /\ op' = "encode"
    /\ ret' = EncodeResult(smooth, q_X, q_A, NumQX + Len(heap'))
    /\ UNCHANGED <<frame, params, cache, computations, first, updates, saved,
                   savedDyn, gymVars>>

\* is_filtering_prior()
IsFilteringPrior ==
    /\ self > 0
    /\ op' = "is_filtering_prior"
    /\ ret' = smooth
    /\ UNCHANGED <<ldsVars, gymVars>>

\* get_dynamics(), sufficient_statistics(), get_parameters(): graph nodes
Query(name) ==
    /\ self > 0
    /\ op' = name
    /\ ret' = [fn |-> name, of |-> self]
    /\ UNCHANGED <<ldsVars, gymVars>>

GetDynamicsCall == Query("get_dynamics")

SufficientStatisticsCall == Query("sufficient_statistics")

GetParametersCall == Query("get_parameters")

\* forward(q_Xt, q_At)
ForwardCall(q_Xt, q_At) ==
    /\ self > 0
    /\ op' = "forward"
    /\ ret' = [fn |-> "forward", of |-> self, q_Xt |-> q_Xt, q_At |-> q_At]
    /\ UNCHANGED <<ldsVars, gymVars>>

\* get_statistics(q_Xt, q_At, q_Xt1)
GetStatistics(q_Xt, q_At, q_Xt1) ==
    /\ self > 0
    /\ op' = "get_statistics"
    /\ ret' = [fn |-> "get_statistics", q_Xt |-> q_Xt, q_At |-> q_At, q_Xt1 |-> q_Xt1]
    /\ UNCHANGED <<ldsVars, gymVars>>

\* next_state(state, action, t)
NextState(t) ==
    /\ self > 0
    /\ op' = "next_state"
    /\ ret' = [fn |-> "next_state", of |-> self, t |-> t]
    /\ UNCHANGED <<ldsVars, gymVars>>

\* kl_divergence(q_X, q_A, _)
NewNode(isSmooth, n, q_X, q_A) ==
    [node |-> n, smooth |-> isSmooth, q_X |-> q_X, q_A |-> q_A]

Store(c, key, node) ==
    [k \in DOMAIN c \cup {key} |-> IF k = key THEN node ELSE c[k]]

\* a cache that holds one entry and evicts the older one
CacheAfterEvicting(c, n, isSmooth, q_X, q_A) ==
    IF <<q_X, q_A>> \notin DOMAIN c
    THEN Store(NoCache, <<q_X, q_A>>, NewNode(isSmooth, n + 1, q_X, q_A))
    ELSE c

CacheAfter(c, n, isSmooth, q_X, q_A) ==
    IF <<q_X, q_A>> \notin DOMAIN c
    THEN Store(c, <<q_X, q_A>>, NewNode(isSmooth, n + 1, q_X, q_A))
    ELSE c

\* a kl_divergence that recomputes on every call
ComputationsAfterRecomputing(c, n, q_X, q_A) == n + 1

ComputationsAfter(c, n, q_X, q_A) == IF <<q_X, q_A>> \notin DOMAIN c THEN n + 1 ELSE n

KlDivergence(q_X, q_A) ==
    /\ self > 0
    /\ q_X \in EncodedX => smooth
    /\ <<q_X, q_A>> \notin DOMAIN cache => computations < MaxComputations
    /\ cache' = CacheAfter(cache, computations, smooth, q_X, q_A)
    /\ computations' = ComputationsAfter(cache, computations, q_X, q_A)
    /\ first' = IF <<q_X, q_A>> \in DOMAIN first THEN first
                ELSE Store(first, <<q_X, q_A>>, cache'[<<q_X, q_A>>])
    /\ op' = "kl_divergence"
    /\ ret' = cache'[<<q_X, q_A>>]
    /\ UNCHANGED <<frame, params, updates, saved, savedDyn, heap, gymVars>>

\* The outer trainer's optimizer step on the tensors get_parameters() exposes;
\* the step it takes is one more draw, fixed by g.
\* X is a tensor with rank axes; k numbers its entries.
RECURSIVE Gradient(_, _, _, _)
Gradient(g, X, rank, k) ==
    IF rank = 0 THEN RandomNormal(g, k)
    ELSE [i \in 1..Len(X) |-> Gradient(g, X[i], rank - 1, k * Len(X) + i)]

\* the variable's value after the step: X + D, entry by entry
RECURSIVE Plus(_, _, _)
Plus(X, D, rank) ==
    IF rank = 0 THEN X + D ELSE [i \in 1..Len(X) |-> Plus(X[i], D[i], rank - 1)]

RECURSIVE InRange(_, _)
InRange(X, rank) ==
    IF rank = 0 THEN X \in QLogVals ELSE \A i \in 1..Len(X) : InRange(X[i], rank - 1)

\* the number of axes of self.A and of self.Q_log_diag
RankA == IF time_varying THEN 3 ELSE 2

RankQ == IF time_varying THEN 2 ELSE 1

ApplyGradients(g) ==
    /\ self > 0
    /\ updates < MaxUpdates
    /\ InRange(Plus(Q_log_diag, Gradient(NextDraw(g), Q_log_diag, RankQ, 0), RankQ), RankQ)
    /\ A' = Plus(A, Gradient(g, A, RankA, 0), RankA)
    /\ Q_log_diag' = Plus(Q_log_diag, Gradient(NextDraw(g), Q_log_diag, RankQ, 0), RankQ)
    /\ updates' = updates + 1
    /\ op' = "apply_gradients"
    /\ ret' = None
    /\ UNCHANGED <<frame, cache, computations, first, saved, savedDyn, heap, gymVars>>

\* a kl_gradients that takes the optimizer's step itself
KlGradientsApplied(q_X, q_A) ==
    /\ self > 0
    /\ <<q_X, q_A>> \in DOMAIN cache
    /\ op' = "kl_gradients"
    /\ ret' = [fn |-> "grad", of |-> cache[<<q_X, q_A>>].node, wrt |-> "get_parameters"]
    /\ A' = Plus(A, Gradient(1, A, RankA, 0), RankA)
    /\ UNCHANGED <<frame, Q_log_diag, cache, computations, first, updates, saved,
                   savedDyn, heap, gymVars>>

\* kl_gradients(q_X, q_A, kl, num_data)
KlGradients(q_X, q_A) ==
    /\ self > 0
    /\ <<q_X, q_A>> \in DOMAIN cache
    /\ op' = "kl_gradients"
    /\ ret' = [fn |-> "grad", of |-> cache[<<q_X, q_A>>].node, wrt |-> "get_parameters"]
    /\ UNCHANGED <<ldsVars, gymVars>>

\* ------------------------------------------------------------- persistence
\* Dynamics.__getstate__ (parasol.prior.common): the configuration of the base class
DynamicsGetState(m) == [ds |-> m.ds, da |-> m.da, horizon |-> m.horizon]

\* __getstate__: the session evaluates the variables, so weights are values
GetStateOf(m) ==
    [ds |-> DynamicsGetState(m).ds, da |-> DynamicsGetState(m).da,
     horizon |-> DynamicsGetState(m).horizon,
     time_varying |-> m.time_varying,
     weights |-> GetParameters(m)]

GetState ==
    /\ self > 0
    /\ saved' = GetStateOf(Me)
    /\ savedDyn' = GetDynamics(Me)
    /\ op' = "__getstate__"
    /\ ret' = None
    /\ UNCHANGED <<frame, params, cache, computations, first, updates, heap, gymVars>>

\* an assignment that is built but never run: the variable keeps its fresh value
AssignNotRun(variable, value) == variable

\* T.core.assign(variable, value)
Assign(variable, value) == value

\* __setstate__(state) on the object unpickling has just allocated: __init__ with
\* the saved configuration (smooth is not passed), then the saved weights are
\* assigned to the freshly initialised variables.
Restored(state, seed) ==
    LET tv == state.time_varying
        weights == state.weights
        A0 == InitialA(tv, state.ds, state.da, state.horizon, seed)
        Q0 == InitialQLogDiag(tv, state.ds, state.horizon, seed)
    IN [ds |-> state.ds, da |-> state.da, horizon |-> state.horizon,
        time_varying |-> tv, smooth |-> FALSE,
        A |-> Assign(A0, weights[1]), Q_log_diag |-> Assign(Q0, weights[2])]

SetState ==
    /\ self > 0
    /\ self < MaxObjects
    /\ saved # None
    /\ \E seed \in Seeds :
          LET r == Restored(saved, seed)
          IN /\ ds' = r.ds
             /\ da' = r.da
             /\ horizon' = r.horizon
             /\ time_varying' = r.time_varying
             /\ smooth' = r.smooth
             /\ A' = r.A
             /\ Q_log_diag' = r.Q_log_diag
    /\ self' = self + 1
    /\ cache' = NoCache
    /\ computations' = 0
    /\ first' = NoCache
    /\ op' = "__setstate__"
    /\ ret' = None
    /\ UNCHANGED <<ctor, updates, saved, savedDyn, heap, gymVars>>

\* ------------------------------------------------------------- parasol.gym
\* ENVS, in order; each class's environment_name is taken to be its own name.
ENVS == <<"Reacher", "Pointmass", "SimpleCar", "Pendulum", "Pusher">>

EnvironmentName(env) == env

\* { env.environment_name : env for env in ENVS }: a later class wins a name
ENV_MAP ==
    [name \in {EnvironmentName(ENVS[i]) : i \in 1..Len(ENVS)} |->
        ENVS[CHOOSE i \in 1..Len(ENVS) :
                /\ EnvironmentName(ENVS[i]) = name
                /\ \A j \in 1..Len(ENVS) : EnvironmentName(ENVS[j]) = name => j <= i]]

\* names a caller may ask for: the registered ones and two that are not
NameInputs == DOMAIN ENV_MAP \cup {"Hopper", "reacher"}

OptionKeys == {"image"}

\* keyword arguments: any of the option keys, each True or False
KwargsInputs == UNION {[keys -> BOOLEAN] : keys \in SUBSET OptionKeys}

\* env_config mappings: keyword arguments, with or without 'environment_name'
ConfigInputs ==
    KwargsInputs \cup
    {[k \in DOMAIN kw \cup {"environment_name"} |->
        IF k = "environment_name" THEN n ELSE kw[k]] : kw \in KwargsInputs, n \in NameInputs}

\* dict.pop(key) leaves the mapping without the key
Without(d, key) == [k \in DOMAIN d \ {key} |-> d[k]]

\* a make that falls back to the first environment for a name it does not know
MakeOutcomeWithDefault(env_name, kwargs) ==
    IF env_name \notin DOMAIN registry
    THEN [raised |-> None, made |-> [class |-> ENVS[1], kwargs |-> kwargs]]
    ELSE [raised |-> None, made |-> [class |-> registry[env_name], kwargs |-> kwargs]]

\* make(env_name, **kwargs): what is raised and what is constructed
MakeOutcome(env_name, kwargs) ==
    IF env_name \notin DOMAIN registry
    THEN [raised |-> [class |-> "Exception"], made |-> None]
    ELSE [raised |-> None, made |-> [class |-> registry[env_name], kwargs |-> kwargs]]

\* from_config(env_config): the outcome, and the caller's mapping afterwards
FromConfigOutcome(env_config) ==
    LET copy == env_config
    IN IF "environment_name" \notin DOMAIN copy
       THEN [raised |-> [class |-> "KeyError"], made |-> None, config |-> env_config]
       ELSE LET name == copy["environment_name"]
                rest == Without(copy, "environment_name")
                out == MakeOutcome(name, rest)
            IN [raised |-> out.raised, made |-> out.made, config |-> env_config]

InitGym ==
    /\ registry = ENV_MAP
    /\ made = None
    /\ constructions = 0
    /\ raised = None
    /\ config = None

\* the caller writes an env_config (experiments/vae/reacher-image/normal.py)
SetConfig(c) ==
    /\ config' = c
    /\ op' = "env_params"
    /\ ret' = None
    /\ UNCHANGED <<ldsVars, registry, made, constructions, raised>>

FromConfig ==
    /\ config # None
    /\ LET out == FromConfigOutcome(config)
       IN /\ out.made # None => constructions < MaxEnvs
          /\ made' = out.made
          /\ constructions' = IF out.made # None THEN constructions + 1 ELSE constructions
          /\ raised' = out.raised
          /\ config' = out.config
    /\ op' = "from_config"
    /\ ret' = None
    /\ UNCHANGED <<ldsVars, registry>>

Make(env_name, kwargs) ==
    /\ LET out == MakeOutcome(env_name, kwargs)
       IN /\ out.made # None => constructions < MaxEnvs
          /\ made' = out.made
          /\ constructions' = IF out.made # None THEN constructions + 1 ELSE constructions
          /\ raised' = out.raised
    /\ op' = "make"
    /\ ret' = None
    /\ UNCHANGED <<ldsVars, registry, config>>

\* ------------------------------------------------------------- specifications
Init == InitLDS /\ InitGym

Next ==
    \/ \E x \in RawX, a \in RawA, s \in {None, GivenStats} : Encode(x, a, s)
    \/ IsFilteringPrior
    \/ GetDynamicsCall
    \/ SufficientStatisticsCall
    \/ GetParametersCall
    \/ \E x \in RawX, a \in RawA : ForwardCall(x, a)
    \/ \E x \in RawX, a \in RawA : GetStatistics(x, a, x)
    \/ \E t \in 0..(horizon - 2) : NextState(t)
    \/ \E x \in RawX \cup EncodedX, a \in RawA : KlDivergence(x, a)
    \/ \E x \in RawX \cup EncodedX, a \in RawA : KlGradients(x, a)
    \/ \E g \in Seeds : ApplyGradients(g)
    \/ GetState
    \/ SetState

Spec == Init /\ [][Next]_vars

\* The outer trainer's loop alone: encode, kl_divergence, kl_gradients, the
\* optimizer step, and checkpoints.
NextTrain ==
    \/ \E x \in RawX, a \in RawA : Encode(x, a, None)
    \/ \E x \in RawX \cup EncodedX, a \in RawA : KlDivergence(x, a)
    \/ \E x \in RawX \cup EncodedX, a \in RawA : KlGradients(x, a)
    \/ \E g \in Seeds : ApplyGradients(g)
    \/ GetState
    \/ SetState

SpecTrain == Init /\ [][NextTrain]_vars

\* The environment registry alone, before any prior is built.
NoLDS ==
    /\ self = 0
    /\ ds = 0 /\ da = 0 /\ horizon = 0
    /\ time_varying = FALSE /\ smooth = FALSE
    /\ A = <<>> /\ Q_log_diag = <<>>
    /\ cache = NoCache /\ computations = 0 /\ first = NoCache
    /\ ctor = None /\ updates = 0 /\ saved = None /\ savedDyn = <<>>
    /\ heap = <<>> /\ op = "import" /\ ret = None

InitEnv == NoLDS /\ InitGym

NextEnv ==
    \/ \E c \in ConfigInputs : SetConfig(c)
    \/ FromConfig
    \/ \E n \in NameInputs, kw \in KwargsInputs : Make(n, kw)

SpecEnv == InitEnv /\ [][NextEnv]_vars

\* ------------------------------------------------------------- properties
AllX == RawX \cup EncodedX

\* C1: a kl_divergence call with a pair this object has already been given
\* returns the tuple the first call with that pair returned and runs no
\* computation; a call with a new pair runs exactly one.
C1_CachedTupleReturned ==
    [][\A x \in AllX, a \in RawA :
          KlDivergence(x, a) =>
             IF <<x, a>> \in DOMAIN first
             THEN ret' = first[<<x, a>>] /\ computations' = computations
             ELSE computations' = computations + 1]_vars

\* a repeated call has just returned an entry older than the newest computation,
\* in the smoothing branch, after the parameters were updated
C1_Witness ==
    /\ op = "kl_divergence"
    /\ ret.node < computations
    /\ smooth
    /\ updates > 0

\* C2: the prior restored by __setstate__ gives the get_dynamics() output the
\* original gave when __getstate__ took the state.
C2_RestoreReproducesDynamics ==
    op = "__setstate__" => GetDynamics(Me) = savedDyn

\* restored in time-varying mode from a state taken after an optimizer step
C2_Witness ==
    /\ op = "__setstate__"
    /\ time_varying
    /\ updates > 0
    /\ saved.weights = <<A, Q_log_diag>>
    /\ \A seed \in Seeds : A # InitialA(time_varying, ds, da, horizon, seed)

\* C3: time_varying and smooth, and so is_filtering_prior(), are what the model
\* was constructed with, in every state.
C3_VariantImmutable ==
    /\ <<time_varying, smooth>> = ctor
    /\ op = "is_filtering_prior" => ret = ctor[2]

\* C4: get_dynamics() returns H-1 slices of shape [ds, ds+da] and H-1 slices of
\* shape [ds, ds], of numbers.
C4_DynamicsShape ==
    LET dyn == GetDynamics(Me)
    IN /\ Len(dyn) = 2
       /\ DOMAIN dyn[1] = 1..(horizon - 1)
       /\ \A t \in DOMAIN dyn[1] :
             /\ DOMAIN dyn[1][t] = 1..ds
             /\ \A i \in 1..ds :
                   /\ DOMAIN dyn[1][t][i] = 1..(ds + da)
                   /\ \A j \in 1..(ds + da) : dyn[1][t][i][j] \in Int
       /\ DOMAIN dyn[2] = 1..(horizon - 1)
       /\ \A t \in DOMAIN dyn[2] :
             /\ DOMAIN dyn[2][t] = 1..ds
             /\ \A i \in 1..ds :
                   /\ DOMAIN dyn[2][t][i] = 1..ds
                   /\ \A j \in 1..ds : dyn[2][t][i][j] \in Int

\* get_dynamics() called on a restored stationary prior of the longest horizon,
\* after an optimizer step
C4_Witness ==
    /\ op = "get_dynamics"
    /\ ~time_varying
    /\ horizon = MaxH
    /\ ds = MaxDs
    /\ self > 1
    /\ updates > 0

\* The time-varying prior whose H-1 slices are all copies of the parameters of
\* the stationary prior m.
TimeVaryingCopy(m) ==
    [m EXCEPT !.time_varying = TRUE,
              !.A = [t \in 1..(m.horizon - 1) |-> m.A],
              !.Q_log_diag = [t \in 1..(m.horizon - 1) |-> m.Q_log_diag]]

\* C5: a stationary prior and the time-varying prior made of copies of its
\* parameters give the same get_dynamics() (every slice the stationary A and Q),
\* the same sufficient statistics, forward predictive and kl_divergence value,
\* in the smoothing and in the non-smoothing branch.
C5_StationaryIsSpecialCase ==
    ~time_varying =>
        LET tv == TimeVaryingCopy(Me)
        IN /\ GetDynamics(tv) = GetDynamics(Me)
           /\ \A t \in 1..(horizon - 1) :
                 /\ GetDynamics(Me)[1][t] = A
                 /\ GetDynamics(tv)[2][t] = MatrixDiag([i \in 1..ds |-> Exp(Q_log_diag[i])])
           /\ SufficientStatistics(tv) = SufficientStatistics(Me)
           /\ \A x \in RawX, a \in RawA :
                 /\ Forward(tv, SliceFrom(StatePosterior(x, tv)), SliceFrom(ActionPosterior(a, tv)))
                      = Forward(Me, SliceFrom(StatePosterior(x, Me)), SliceFrom(ActionPosterior(a, Me)))
                 /\ KlForward(tv, StatePosterior(x, tv), ActionPosterior(a, tv))
                      = KlForward(Me, StatePosterior(x, Me), ActionPosterior(a, Me))
           /\ \A x \in AllX, a \in RawA :
                 KlSmooth(tv, XContent(x, tv), ActionPosterior(a, tv))
                      = KlSmooth(Me, XContent(x, Me), ActionPosterior(a, Me))

\* a stationary prior over the longest horizon whose parameters an optimizer
\* step has moved and which holds a cached KL
C5_Witness ==
    /\ ~time_varying
    /\ horizon = MaxH
    /\ updates > 0
    /\ DOMAIN cache # {}

\* C6: encode in the non-smoothing branch returns the very posteriors it was
\* given, whatever dynamics_stats is; in the smoothing branch it returns a new
\* chain over q_X with q_A itself; either way the parameters and the cache stay.
C6_EncodePassThrough ==
    [][\A x \in RawX, a \in RawA, s \in {None, GivenStats} :
          Encode(x, a, s) =>
             /\ ~smooth => ret' = <<x, a>> /\ heap' = heap
             /\ smooth => /\ ret'[2] = a
                          /\ ret'[1] \notin AllX
                          /\ heap'[ret'[1] - NumQX].evidence = x
                          /\ heap'[ret'[1] - NumQX].class = "LDS"
             /\ UNCHANGED <<A, Q_log_diag, cache>>]_vars

\* encode has returned in the non-smoothing branch of a prior that holds a cached KL
C6_Witness ==
    /\ op = "encode"
    /\ ~smooth
    /\ ret \in RawX \X RawA
    /\ DOMAIN cache # {}

C8_CacheNeverEvicts ==
    /\ [](/\ DOMAIN cache = DOMAIN first
          /\ \A k \in DOMAIN cache : cache[k] = first[k]
          /\ Cardinality(DOMAIN cache) = computations)
    /\ [][self' = self =>
             /\ \A k \in DOMAIN cache : k \in DOMAIN cache' /\ cache'[k] = cache[k]
             /\ Cardinality(DOMAIN cache') >= Cardinality(DOMAIN cache)]_vars

\* two pairs are cached and another operation has run since
C8_Witness ==
    /\ Cardinality(DOMAIN cache) = 2
    /\ op = "apply_gradients"

\* Transition t (1..H-1) of rollout n leads from time step t to time step t+1.
\* The mean predicted for step t+1: slice t of get_dynamics() applied to the
\* expected state and action of step t.
PredictedMean(x, a, n, t) ==
    LET DA == GetDynamics(Me)[1]
        X == StatePosterior(x, Me).mean
        U == ActionPosterior(a, Me).mean
    IN [i \in 1..ds |->
          (SumSeq([s \in 1..ds |-> DA[t][i][s] * X[n][t][s]])
           + SumSeq([s \in 1..da |-> DA[t][i][ds + s] * U[n][t][s]])) \div Scale]

\* C9: in the non-smoothing branch a cached kl_divergence scores the H-1
\* transitions, transition t predicting step t+1 from step t and being compared
\* with the posterior of step t+1; 'rmse' has one entry per rollout and
\* transition, the distance between the predicted and the encoded mean of it.
C9_TransitionsAligned ==
    \A key \in DOMAIN cache :
        ~cache[key].smooth =>
            LET x == key[1]
                a == key[2]
                v == EvalNode(Me, cache[key])
                X == StatePosterior(x, Me)
                DQ == GetDynamics(Me)[2]
            IN /\ DOMAIN v.info.rmse = 1..BatchSize
               /\ \A n \in 1..BatchSize :
                     /\ DOMAIN v.info.rmse[n] = 1..(horizon - 1)
                     /\ \A t \in 1..(horizon - 1) :
                           v.info.rmse[n][t] =
                              ISqrt(SumSeq([i \in 1..ds |->
                                 (X.mean[n][t + 1][i] - PredictedMean(x, a, n, t)[i])
                                 * (X.mean[n][t + 1][i] - PredictedMean(x, a, n, t)[i])]))
               /\ v.kl = SumSeq([n \in 1..BatchSize |->
                            SumSeq([t \in 1..(horizon - 1) |->
                               GaussianKL(X.cov[n][t + 1], X.mean[n][t + 1],
                                          DQ[t], PredictedMean(x, a, n, t))])])
                         \div BatchSize

\* a time-varying, non-smoothing prior over the longest horizon holds a cached KL
\* whose prediction is off, after an optimizer step
C9_Witness ==
    /\ ~smooth
    /\ time_varying
    /\ horizon = MaxH
    /\ updates > 0
    /\ \E key \in DOMAIN cache :
          \E n \in 1..BatchSize, t \in 1..(horizon - 1) :
              EvalNode(Me, cache[key]).info.rmse[n][t] > 0

\* C10: make, and from_config through it, raise for a name that is no key of
\* ENV_MAP and construct nothing; for a registered name they construct the class
\* registered under it with the other entries as keyword arguments; from_config
\* leaves the caller's env_config as it was.
C10_UnknownEnvironmentRaises ==
    [][/\ \A n \in NameInputs, kw \in KwargsInputs :
             Make(n, kw) =>
                IF \E i \in 1..Len(ENVS) : EnvironmentName(ENVS[i]) = n
                THEN /\ raised' = None
                     /\ made' = [class |-> ENV_MAP[n], kwargs |-> kw]
                     /\ constructions' = constructions + 1
                ELSE /\ raised' # None
                     /\ made' = None
                     /\ constructions' = constructions
       /\ (FromConfig /\ "environment_name" \in DOMAIN config) =>
             /\ config' = config
             /\ IF \E i \in 1..Len(ENVS) : EnvironmentName(ENVS[i]) = config["environment_name"]
                THEN /\ raised' = None
                     /\ made' = [class |-> ENV_MAP[config["environment_name"]],
                                 kwargs |-> [k \in DOMAIN config \ {"environment_name"} |-> config[k]]]
                     /\ constructions' = constructions + 1
                ELSE /\ raised' # None
                     /\ made' = None
                     /\ constructions' = constructions]_vars

\* from_config has raised for an unregistered name that came with another entry,
\* after an environment had been constructed
C10_Witness ==
    /\ op = "from_config"
    /\ raised # None
    /\ constructions > 0
    /\ DOMAIN config = {"environment_name", "image"}
    /\ config["environment_name"] \notin DOMAIN ENV_MAP

=============================================================================
